---- MODULE Spec2Model ----
(***************************************************************************)
(* CallbackNotifier (tools/emulator/system/camera/CallbackNotifier.cpp):   *)
(* the object that holds the camera HAL callbacks, the message-enable mask *)
(* and the video-recording pacing state, and delivers video frames to the  *)
(* framework.  Two threads use one instance: "cfg" calls the camera API,   *)
(* "frame" is the device's worker thread calling onNextFrameAvailable.     *)
(* Every member write is one step, so that what Mutex::Autolock protects   *)
(* is visible.                                                             *)
(***************************************************************************)
EXTENDS Integers, Sequences, FiniteSets, TLC

VARIABLES
    obj,             \* the data members of the CallbackNotifier instance
    mObjectLock,     \* holder of the object's mutex: "free" or a thread
    pc,              \* each thread's position
    call,            \* each thread's current (cfg: also most recent) call
    trace,           \* frames that reached the rate gate since the last API call began
    sinceEnable,     \* that API call was enableVideoRecording
    lastFps,         \* the fps of the most recent enableVideoRecording call
    crashed,         \* the process has died on a fault
    frameBufferSize  \* camera_dev->getFrameBufferSize()

vars == <<obj, mObjectLock, pc, call, trace, sinceEnable, lastFps, crashed,
          frameBufferSize>>

(***************************************************************************)
(* Constants of the program.                                               *)
(***************************************************************************)
NULL == 0
CAMERA_MSG_PREVIEW_FRAME == 16
CAMERA_MSG_VIDEO_FRAME == 32
NANOS_PER_SEC == 1000000000
lCameraMessagesNum == 11
NO_ERROR == "NO_ERROR"
INVALID_OPERATION == "INVALID_OPERATION"

(***************************************************************************)
(* Bounds and the inputs the environment draws from.                       *)
(***************************************************************************)
MaxFrames == 3

Threads == {"cfg", "frame"}
MsgTypes == {CAMERA_MSG_PREVIEW_FRAME, CAMERA_MSG_VIDEO_FRAME,
             CAMERA_MSG_PREVIEW_FRAME + CAMERA_MSG_VIDEO_FRAME}
FpsValues == {-1, 0, 1, 30, 100}
Timestamps == {0, 10000000, 15000000, 40000000}
FrameSizes == {4096}
AllocResults == {"ok", "null", "nodata"}
DivByZeroResults == {0, 2147483647}

FullSet(id) ==
    [notify_cb |-> id, data_cb |-> id, data_cb_timestamp |-> id,
     get_memory |-> id, user |-> id]
CallbackSets ==
    { FullSet(NULL), FullSet(1), FullSet(2),
      [FullSet(1) EXCEPT !.get_memory = NULL],
      [FullSet(1) EXCEPT !.data_cb_timestamp = NULL] }

(***************************************************************************)
(* Bit arithmetic on the uint32_t mask.                                    *)
(***************************************************************************)
RECURSIVE BitAnd(_, _)
BitAnd(a, b) ==
    IF a = 0 \/ b = 0 THEN 0
    ELSE (a % 2) * (b % 2) + 2 * BitAnd(a \div 2, b \div 2)

RECURSIVE BitOr(_, _)
BitOr(a, b) ==
    IF a = 0 THEN b
    ELSE IF b = 0 THEN a
    ELSE (IF a % 2 = 1 \/ b % 2 = 1 THEN 1 ELSE 0)
         + 2 * BitOr(a \div 2, b \div 2)

\* a & ~b
RECURSIVE BitAndNot(_, _)
BitAndNot(a, b) ==
    IF a = 0 THEN 0
    ELSE (a % 2) * (1 - (b % 2)) + 2 * BitAndNot(a \div 2, b \div 2)

\* C++ integer division of a non-negative dividend: truncation toward zero.
CDiv(a, b) == IF b > 0 THEN a \div b ELSE 0 - (a \div (0 - b))

(***************************************************************************)
(* The object.                                                             *)
(***************************************************************************)
Constructed ==
    [mNotifyCB |-> NULL, mDataCB |-> NULL, mDataCBTimestamp |-> NULL,
     mGetMemoryCB |-> NULL, mCBOpaque |-> NULL,
     mLastFrameTimestamp |-> 0, mFrameRefreshFreq |-> 0,
     mMessageEnabler |-> 0, mVideoRecEnabled |-> FALSE]

NoCall == [op |-> "none"]
NoFps == "none"

Init ==
    /\ obj = Constructed
    /\ mObjectLock = "free"
    /\ pc = [t \in Threads |-> "idle"]
    /\ call = [t \in Threads |-> NoCall]
    /\ trace = <<>>
    /\ sinceEnable = FALSE
    /\ lastFps = NoFps
    /\ crashed = FALSE
    /\ frameBufferSize \in FrameSizes

\* Mutant: the lock is taken without waiting for its holder.
LockWithoutWaiting(t) == mObjectLock' = t

\* Mutex::Autolock locker(&mObjectLock): blocks until the mutex is free.
Lock(t) == mObjectLock = "free" /\ mObjectLock' = t
\* ~Autolock at the end of the scope.
Unlock(t) == mObjectLock' = "free"

W(f, v) == [field |-> f, value |-> v, trap |-> FALSE]
Trap(f) == [field |-> f, value |-> 0, trap |-> TRUE]

(***************************************************************************)
(* The member writes each API function performs while it holds the lock,   *)
(* in program order, and the value it returns.                             *)
(***************************************************************************)
setCallbacksWrites(s) ==
    << W("mNotifyCB", s.notify_cb), W("mDataCB", s.data_cb),
       W("mDataCBTimestamp", s.data_cb_timestamp),
       W("mGetMemoryCB", s.get_memory), W("mCBOpaque", s.user) >>

\* Mutant: the mask is replaced by the argument.
enableMessageWritesReplace(msg_type) ==
    << W("mMessageEnabler", msg_type) >>

enableMessageWrites(msg_type) ==
    << W("mMessageEnabler", BitOr(obj.mMessageEnabler, msg_type)) >>

\* Mutant: the whole mask is cleared.
disableMessageWritesClearAll(msg_type) ==
    << W("mMessageEnabler", 0) >>

disableMessageWrites(msg_type) ==
    << W("mMessageEnabler", BitAndNot(obj.mMessageEnabler, msg_type)) >>

isMessageEnabled(msg_type) == BitAndNot(obj.mMessageEnabler, msg_type)

\* Mutant: the interval computed in microseconds.
RefreshFreqWritesMicros(fps) ==
    IF fps = 0
    THEN {Trap("mFrameRefreshFreq")}
         \cup {W("mFrameRefreshFreq", q) : q \in DivByZeroResults}
    ELSE {W("mFrameRefreshFreq", CDiv(1000000, fps))}

\* 1000000000LL / fps; fps = 0 is a division by zero: the build either
\* traps (SIGFPE) or yields some quotient.
RefreshFreqWrites(fps) ==
    IF fps = 0
    THEN {Trap("mFrameRefreshFreq")}
         \cup {W("mFrameRefreshFreq", q) : q \in DivByZeroResults}
    ELSE {W("mFrameRefreshFreq", CDiv(NANOS_PER_SEC, fps))}

\* Mutant: the reference timestamp is not reset.
enableVideoRecordingWritesKeepLast(fps) ==
    { << W("mVideoRecEnabled", TRUE), w >> : w \in RefreshFreqWrites(fps) }

enableVideoRecordingWrites(fps) ==
    { << W("mVideoRecEnabled", TRUE), W("mLastFrameTimestamp", 0), w >> :
        w \in RefreshFreqWrites(fps) }

enableVideoRecordingStatus(fps) == NO_ERROR

\* Mutant: the gate's reference is not reset.
disableVideoRecordingWritesKeepReference ==
    << W("mVideoRecEnabled", FALSE), W("mFrameRefreshFreq", 0) >>

disableVideoRecordingWrites ==
    << W("mVideoRecEnabled", FALSE), W("mLastFrameTimestamp", 0),
       W("mFrameRefreshFreq", 0) >>

isVideoRecordingEnabled == obj.mVideoRecEnabled

\* releaseRecordingFrame(opaque): nothing is written, nothing returned.
releaseRecordingFrameWrites == << >>

\* Mutant: metadata mode is reported as switched on when asked for.
storeMetaDataInBuffersStatusToggle(enable) ==
    IF enable THEN NO_ERROR ELSE INVALID_OPERATION

\* storeMetaDataInBuffers(enable): nothing is written.
storeMetaDataInBuffersWrites(enable) == << >>

storeMetaDataInBuffersStatus(enable) == INVALID_OPERATION

\* Mutant: the frame interval is not reset.
cleanupCBNotifierWritesKeepInterval ==
    << W("mMessageEnabler", 0), W("mNotifyCB", NULL), W("mDataCB", NULL),
       W("mDataCBTimestamp", NULL), W("mGetMemoryCB", NULL),
       W("mCBOpaque", NULL), W("mLastFrameTimestamp", 0),
       W("mVideoRecEnabled", FALSE) >>

cleanupCBNotifierWrites ==
    << W("mMessageEnabler", 0), W("mNotifyCB", NULL), W("mDataCB", NULL),
       W("mDataCBTimestamp", NULL), W("mGetMemoryCB", NULL),
       W("mCBOpaque", NULL), W("mLastFrameTimestamp", 0),
       W("mFrameRefreshFreq", 0), W("mVideoRecEnabled", FALSE) >>

(***************************************************************************)
(* An API call of the cfg thread: take the lock, perform the writes one by *)
(* one, return (which releases the lock).                                  *)
(***************************************************************************)
ApiBegin(op, arg, writes, ret) ==
    /\ ~crashed
    /\ pc["cfg"] = "idle"
    /\ Lock("cfg")
    /\ pc' = [pc EXCEPT !["cfg"] = "body"]
    /\ call' = [call EXCEPT !["cfg"] =
                   [op |-> op, arg |-> arg, pre |-> obj,
                    writes |-> writes, ret |-> ret, prev |-> call["cfg"]]]
    /\ trace' = <<>>
    /\ sinceEnable' = (op = "enableVideoRecording")
    /\ lastFps' = IF op = "enableVideoRecording" THEN arg ELSE lastFps
    /\ UNCHANGED <<obj, crashed, frameBufferSize>>

SetCallbacks ==
    \E s \in CallbackSets :
        ApiBegin("setCallbacks", s, setCallbacksWrites(s), "void")

EnableMessage ==
    \E m \in MsgTypes :
        ApiBegin("enableMessage", m, enableMessageWrites(m), "void")

DisableMessage ==
    \E m \in MsgTypes :
        ApiBegin("disableMessage", m, disableMessageWrites(m), "void")

IsMessageEnabled ==
    \E m \in MsgTypes :
        ApiBegin("isMessageEnabled", m, <<>>, isMessageEnabled(m))

EnableVideoRecording ==
    \E fps \in FpsValues : \E ws \in enableVideoRecordingWrites(fps) :
        ApiBegin("enableVideoRecording", fps, ws,
                 enableVideoRecordingStatus(fps))

DisableVideoRecording ==
    ApiBegin("disableVideoRecording", 0, disableVideoRecordingWrites, "void")

IsVideoRecordingEnabled ==
    ApiBegin("isVideoRecordingEnabled", 0, <<>>, isVideoRecordingEnabled)

CleanupCBNotifier ==
    ApiBegin("cleanupCBNotifier", 0, cleanupCBNotifierWrites, "void")

(***************************************************************************)
(* An API call of the cfg thread that takes no lock: it runs whatever the  *)
(* frame thread is doing.                                                  *)
(***************************************************************************)
ApiBeginUnlocked(op, arg, writes, ret) ==
    /\ ~crashed
    /\ pc["cfg"] = "idle"
    /\ pc' = [pc EXCEPT !["cfg"] = "unlocked"]
    /\ call' = [call EXCEPT !["cfg"] =
                   [op |-> op, arg |-> arg, writes |-> writes, ret |-> ret]]
    /\ UNCHANGED <<obj, mObjectLock, trace, sinceEnable, lastFps, crashed,
                   frameBufferSize>>

ReleaseRecordingFrame ==
    ApiBeginUnlocked("releaseRecordingFrame", NULL,
                     releaseRecordingFrameWrites, "void")

StoreMetaDataInBuffers ==
    \E enable \in BOOLEAN :
        ApiBeginUnlocked("storeMetaDataInBuffers", enable,
                         storeMetaDataInBuffersWrites(enable),
                         storeMetaDataInBuffersStatus(enable))

\* The next member write of the call in progress.
ApiWrite ==
    /\ ~crashed
    /\ pc["cfg"] \in {"body", "unlocked"}
    /\ call["cfg"].writes # <<>>
    /\ LET w == Head(call["cfg"].writes) IN
        IF w.trap
        THEN /\ crashed' = TRUE
             /\ UNCHANGED <<obj, call>>
        ELSE /\ obj' = [obj EXCEPT ![w.field] = w.value]
             /\ call' = [call EXCEPT !["cfg"].writes = Tail(@)]
             /\ UNCHANGED crashed
    /\ UNCHANGED <<mObjectLock, pc, trace, sinceEnable, lastFps, frameBufferSize>>

\* What is remembered of a call that has returned, until the next call of
\* either thread begins: an enableMessage with its argument and the mask it
\* found.
Returned(c) ==
    IF c.op = "enableMessage"
    THEN [op |-> c.op, arg |-> c.arg, mask |-> c.pre.mMessageEnabler]
    ELSE NoCall

ApiReturn ==
    /\ ~crashed
    /\ pc["cfg"] = "body"
    /\ call["cfg"].writes = <<>>
    /\ Unlock("cfg")
    /\ pc' = [pc EXCEPT !["cfg"] = "idle"]
    /\ call' = [call EXCEPT !["cfg"] = Returned(@)]
    /\ UNCHANGED <<obj, trace, sinceEnable, lastFps, crashed, frameBufferSize>>

\* Return of a call that took no lock.
ApiReturnUnlocked ==
    /\ ~crashed
    /\ pc["cfg"] = "unlocked"
    /\ call["cfg"].writes = <<>>
    /\ pc' = [pc EXCEPT !["cfg"] = "idle"]
    /\ call' = [call EXCEPT !["cfg"] = NoCall]
    /\ UNCHANGED <<obj, mObjectLock, trace, sinceEnable, lastFps, crashed,
                   frameBufferSize>>

(***************************************************************************)
(* onNextFrameAvailable(frame, timestamp, camera_dev) on the frame thread. *)
(***************************************************************************)
\* Mutant: a frame exactly one interval after the reference is turned away.
isNewVideoFrameTimeStrict(timestamp) ==
    IF (timestamp - obj.mLastFrameTimestamp) > obj.mFrameRefreshFreq
    THEN [ret |-> TRUE, mLastFrameTimestamp |-> timestamp]
    ELSE [ret |-> FALSE, mLastFrameTimestamp |-> obj.mLastFrameTimestamp]

\* Mutant: an admitted frame does not become the reference.
isNewVideoFrameTimeKeepRef(timestamp) ==
    [ret |-> (timestamp - obj.mLastFrameTimestamp) >= obj.mFrameRefreshFreq,
     mLastFrameTimestamp |-> obj.mLastFrameTimestamp]

\* isNewVideoFrameTime(timestamp): the value returned and the member after it.
isNewVideoFrameTime(timestamp) ==
    IF (timestamp - obj.mLastFrameTimestamp) >= obj.mFrameRefreshFreq
    THEN [ret |-> TRUE, mLastFrameTimestamp |-> timestamp]
    ELSE [ret |-> FALSE, mLastFrameTimestamp |-> obj.mLastFrameTimestamp]

\* Mutant: the recording flag is not tested.
FrameWantedIgnoringRecording ==
    /\ BitAnd(obj.mMessageEnabler, CAMERA_MSG_VIDEO_FRAME) # 0
    /\ obj.mDataCBTimestamp # NULL

\* Mutant: the message mask is not tested.
FrameWantedIgnoringMask ==
    /\ obj.mDataCBTimestamp # NULL
    /\ obj.mVideoRecEnabled

\* The conditions of the if that are tested before isNewVideoFrameTime.
FrameWanted ==
    /\ BitAnd(obj.mMessageEnabler, CAMERA_MSG_VIDEO_FRAME) # 0
    /\ obj.mDataCBTimestamp # NULL
    /\ obj.mVideoRecEnabled

\* The invocation appended to the log of the dispatch in progress.
Logged(entry) ==
    [call EXCEPT !["frame"].calls = Append(@, entry)]

FrameBegin ==
    \E timestamp \in Timestamps :
        /\ ~crashed
        /\ pc["frame"] = "idle"
        /\ Len(trace) < MaxFrames
        /\ Lock("frame")
        /\ pc' = [pc EXCEPT !["frame"] = "guard"]
        /\ call' = [call EXCEPT !["frame"] =
                       [op |-> "onNextFrameAvailable", timestamp |-> timestamp,
                        seen |-> obj, gated |-> FALSE, cam_buff |-> "unset",
                        calls |-> <<>>],
                                !["cfg"] = IF pc["cfg"] = "idle"
                                           THEN NoCall ELSE @]
        /\ UNCHANGED <<obj, trace, sinceEnable, lastFps, crashed, frameBufferSize>>

\* The condition of the if, left to right; isNewVideoFrameTime is reached
\* only when the three tests before it pass.
FrameGuard ==
    /\ ~crashed
    /\ pc["frame"] = "guard"
    /\ IF FrameWanted
       THEN LET r == isNewVideoFrameTime(call["frame"].timestamp) IN
            /\ obj' = [obj EXCEPT !.mLastFrameTimestamp = r.mLastFrameTimestamp]
            /\ pc' = [pc EXCEPT !["frame"] =
                         IF r.ret THEN "get_memory" ELSE "return"]
            /\ call' = [call EXCEPT !["frame"].gated = TRUE]
       ELSE /\ pc' = [pc EXCEPT !["frame"] = "return"]
            /\ UNCHANGED <<obj, call>>
    /\ UNCHANGED <<mObjectLock, trace, sinceEnable, lastFps, crashed, frameBufferSize>>

\* Mutant: the buffer's data pointer is not tested.
BufferUsableUnlessNull(cam_buff) == cam_buff # "null"

\* NULL != cam_buff && NULL != cam_buff->data
BufferUsable(cam_buff) == cam_buff # "null" /\ cam_buff # "nodata"

\* cam_buff = mGetMemoryCB(-1, camera_dev->getFrameBufferSize(), 1, NULL).
\* The pointer is not tested: when it is NULL the indirect call jumps to
\* address 0 and the process dies on the fault.
FrameGetMemory ==
    /\ ~crashed
    /\ pc["frame"] = "get_memory"
    /\ LET entry(res) ==
               [fn |-> "get_memory", cb |-> obj.mGetMemoryCB, fd |-> -1,
                size |-> frameBufferSize, num |-> 1, user |-> NULL,
                ret |-> res]
       IN IF obj.mGetMemoryCB = NULL
          THEN /\ crashed' = TRUE
               /\ call' = Logged(entry("fault"))
               /\ UNCHANGED pc
          ELSE \E res \in AllocResults :
               /\ call' = [Logged(entry(res)) EXCEPT !["frame"].cam_buff = res]
               /\ pc' = [pc EXCEPT !["frame"] =
                            IF BufferUsable(res) THEN "data_cb" ELSE "return"]
               /\ UNCHANGED crashed
    /\ UNCHANGED <<obj, mObjectLock, trace, sinceEnable, lastFps, frameBufferSize>>

\* Mutant: the frame is announced as a preview frame.
DataCBTimestampCallAsPreview(timestamp, cam_buff) ==
    [fn |-> "data_cb_timestamp", cb |-> obj.mDataCBTimestamp,
     timestamp |-> timestamp, msg_type |-> CAMERA_MSG_PREVIEW_FRAME,
     data |-> cam_buff, copied |-> frameBufferSize, index |-> 0,
     user |-> obj.mCBOpaque]

\* memcpy(cam_buff->data, frame, size);
\* mDataCBTimestamp(timestamp, CAMERA_MSG_VIDEO_FRAME, cam_buff, 0, mCBOpaque).
DataCBTimestampCall(timestamp, cam_buff) ==
    [fn |-> "data_cb_timestamp", cb |-> obj.mDataCBTimestamp,
     timestamp |-> timestamp, msg_type |-> CAMERA_MSG_VIDEO_FRAME,
     data |-> cam_buff, copied |-> frameBufferSize, index |-> 0,
     user |-> obj.mCBOpaque]

FrameDataCB ==
    /\ ~crashed
    /\ pc["frame"] = "data_cb"
    /\ call' = Logged(DataCBTimestampCall(call["frame"].timestamp,
                                          call["frame"].cam_buff))
    /\ pc' = [pc EXCEPT !["frame"] = "return"]
    /\ UNCHANGED <<obj, mObjectLock, trace, sinceEnable, lastFps, crashed,
                   frameBufferSize>>

\* A frame that reached the rate gate is recorded with what was invoked.
FrameReturn ==
    /\ ~crashed
    /\ pc["frame"] = "return"
    /\ Unlock("frame")
    /\ pc' = [pc EXCEPT !["frame"] = "idle"]
    /\ trace' = IF call["frame"].gated
                THEN Append(trace, [timestamp |-> call["frame"].timestamp,
                                    calls |-> call["frame"].calls])
                ELSE trace
    /\ call' = [call EXCEPT !["frame"] = NoCall]
    /\ UNCHANGED <<obj, sinceEnable, lastFps, crashed, frameBufferSize>>

Next ==
    \/ SetCallbacks
    \/ EnableMessage
    \/ DisableMessage
    \/ IsMessageEnabled
    \/ EnableVideoRecording
    \/ DisableVideoRecording
    \/ IsVideoRecordingEnabled
    \/ CleanupCBNotifier
    \/ ReleaseRecordingFrame
    \/ StoreMetaDataInBuffers
    \/ ApiWrite
    \/ ApiReturn
    \/ ApiReturnUnlocked
    \/ FrameBegin
    \/ FrameGuard
    \/ FrameGetMemory
    \/ FrameDataCB
    \/ FrameReturn

Spec == Init /\ [][Next]_vars

(***************************************************************************)
(* Vocabulary of the properties.                                           *)
(***************************************************************************)
InDispatch == call["frame"].op = "onNextFrameAvailable"
AtApiReturn(op) ==
    /\ pc["cfg"] = "body"
    /\ call["cfg"].op = op
    /\ call["cfg"].writes = <<>>

VideoBitSet(o) == BitAnd(o.mMessageEnabler, CAMERA_MSG_VIDEO_FRAME) # 0
Slots(o) ==
    [notify_cb |-> o.mNotifyCB, data_cb |-> o.mDataCB,
     data_cb_timestamp |-> o.mDataCBTimestamp,
     get_memory |-> o.mGetMemoryCB, user |-> o.mCBOpaque]
AllSlotsNull(o) ==
    /\ o.mNotifyCB = NULL /\ o.mDataCB = NULL
    /\ o.mDataCBTimestamp = NULL /\ o.mGetMemoryCB = NULL
AllSlotsSet(o) ==
    /\ o.mNotifyCB # NULL /\ o.mDataCB # NULL
    /\ o.mDataCBTimestamp # NULL /\ o.mGetMemoryCB # NULL

\* The dispatch in progress passed the rate gate.
AdmittedNow ==
    /\ InDispatch
    /\ call["frame"].gated
    /\ \/ pc["frame"] \in {"get_memory", "data_cb"}
       \/ call["frame"].calls # <<>>
\* The dispatch in progress was turned away by the rate gate.
RejectedNow ==
    /\ InDispatch
    /\ call["frame"].gated
    /\ pc["frame"] = "return"
    /\ call["frame"].calls = <<>>

IsGetMemory(c, size) ==
    /\ c.fn = "get_memory" /\ c.cb # NULL
    /\ c.fd = -1 /\ c.size = size /\ c.num = 1 /\ c.user = NULL
IsDataCB(c, timestamp) ==
    /\ c.fn = "data_cb_timestamp" /\ c.cb # NULL
    /\ c.timestamp = timestamp /\ c.msg_type = CAMERA_MSG_VIDEO_FRAME
    /\ c.index = 0
\* One allocator call that succeeded, then one data callback with offset 0.
DeliveredOnce(e, size) ==
    /\ Len(e.calls) = 2
    /\ IsGetMemory(e.calls[1], size) /\ e.calls[1].ret = "ok"
    /\ IsDataCB(e.calls[2], e.timestamp)
Delivered(e) ==
    \E i \in 1..Len(e.calls) : e.calls[i].fn = "data_cb_timestamp"
DeliveredFrames == SelectSeq(trace, Delivered)
TimestampsOf(es) == [i \in 1..Len(es) |-> es[i].timestamp]

(***************************************************************************)
(* C1.  A dispatch invokes nothing (no allocator call, no data callback,   *)
(* no call through an unset slot) unless the video-frame bit is set, the   *)
(* timestamped-data callback and the request-memory callback are both      *)
(* installed, recording is enabled and the frame was admitted.  The code   *)
(* does not test mGetMemoryCB, so this fails.                              *)
(***************************************************************************)
C1_DispatchGuard ==
    (InDispatch /\ call["frame"].calls # <<>>) =>
        /\ VideoBitSet(obj)
        /\ obj.mDataCBTimestamp # NULL
        /\ obj.mGetMemoryCB # NULL
        /\ obj.mVideoRecEnabled
        /\ AdmittedNow
        /\ \A i \in 1..Len(call["frame"].calls) :
               call["frame"].calls[i].cb # NULL

(***************************************************************************)
(* C2.  After enableVideoRecording(fps) with fps > 0, the first frame that *)
(* reaches the rate gate is admitted, whatever its timestamp >= 0.         *)
(* This is the claim as made; the gate compares the timestamp with the     *)
(* interval, so a first frame earlier than one interval is turned away.    *)
(***************************************************************************)
FirstGateAfterEnable ==
    /\ sinceEnable
    /\ lastFps > 0
    /\ trace = <<>>
    /\ InDispatch
    /\ call["frame"].gated

Scenario ==
    /\ sinceEnable
    /\ lastFps = 30
    /\ AllSlotsSet(obj)
    /\ VideoBitSet(obj)
    /\ pc["frame"] = "idle"
    /\ TimestampsOf(trace) = <<0, 10000000, 40000000>>
    /\ \A i \in 1..Len(trace) : \A j \in 1..Len(trace[i].calls) :
           trace[i].calls[j].fn = "get_memory" => trace[i].calls[j].ret = "ok"

C4_EnableRejectsNonPositiveFps ==
    AtApiReturn("enableVideoRecording") =>
        /\ call["cfg"].arg <= 0 =>
               /\ call["cfg"].ret = "BAD_VALUE"
               /\ obj = call["cfg"].pre
        /\ call["cfg"].ret = NO_ERROR => call["cfg"].arg > 0

(***************************************************************************)
(* C5.  isMessageEnabled(bits) returns non-zero if and only if every       *)
(* requested bit is set in the mask.  The code returns mask & ~bits, so    *)
(* this fails.                                                             *)
(***************************************************************************)
C5_IsEnabledIffAllBitsSet ==
    AtApiReturn("isMessageEnabled") =>
        ((call["cfg"].ret # 0) <=>
            (BitAnd(obj.mMessageEnabler, call["cfg"].arg) = call["cfg"].arg))

(***************************************************************************)
(* C6.  A dispatch made while no callback is installed, or while the       *)
(* video-frame bit is clear, or while recording is disabled, invokes       *)
(* neither the allocator nor the timestamped-data callback, whatever the   *)
(* timestamp.                                                              *)
(***************************************************************************)
C6_NoInvocationWhenNotConfigured ==
    (InDispatch /\ (\/ AllSlotsNull(obj)
                    \/ ~VideoBitSet(obj)
                    \/ ~obj.mVideoRecEnabled)) =>
        /\ call["frame"].calls = <<>>
        /\ pc["frame"] \in {"guard", "return"}
        /\ ~crashed

C6_Witness ==
    /\ InDispatch
    /\ pc["frame"] = "return"
    /\ ~obj.mVideoRecEnabled
    /\ AllSlotsSet(obj)
    /\ VideoBitSet(obj)
    /\ call["frame"].calls = <<>>

(***************************************************************************)
(* C7.  The rate gate admits a frame, and makes its timestamp the          *)
(* reference, if and only if timestamp - mLastFrameTimestamp is at least   *)
(* mFrameRefreshFreq; otherwise it turns the frame away and leaves the     *)
(* reference alone.  Hence in a run of gated frames each one is judged     *)
(* against the latest admitted frame before it, never against a frame that *)
(* was turned away, and the reference is the latest admitted timestamp.    *)
(***************************************************************************)
Admitted(e) == e.calls # <<>>

\* The reference the i-th gated frame is compared with (0 right after
\* enableVideoRecording).
RECURSIVE RefBefore(_)
RefBefore(i) ==
    IF i = 1 THEN 0
    ELSE IF Admitted(trace[i - 1]) THEN trace[i - 1].timestamp
    ELSE RefBefore(i - 1)

HasRef(i) == sinceEnable \/ \E j \in 1..(i - 1) : Admitted(trace[j])

C7_GateStep ==
    (pc["frame"] = "guard" /\ pc'["frame"] # "guard" /\ call'["frame"].gated) =>
        LET timestamp == call["frame"].timestamp IN
        IF timestamp - obj.mLastFrameTimestamp >= obj.mFrameRefreshFreq
        THEN /\ pc'["frame"] = "get_memory"
             /\ obj'.mLastFrameTimestamp = timestamp
        ELSE /\ pc'["frame"] = "return"
             /\ obj'.mLastFrameTimestamp = obj.mLastFrameTimestamp

C7_Reference ==
    (pc["cfg"] = "idle" /\ pc["frame"] = "idle") =>
        /\ \A i \in 1..Len(trace) :
               HasRef(i) =>
                   (Admitted(trace[i]) <=>
                       trace[i].timestamp - RefBefore(i)
                           >= obj.mFrameRefreshFreq)
        /\ HasRef(Len(trace) + 1) =>
               obj.mLastFrameTimestamp = RefBefore(Len(trace) + 1)

C7_AdmissionRule == [][C7_GateStep]_vars /\ []C7_Reference

\* Admitted at t1, turned away at t2, admitted at t3, which is the reference.
C7_Witness ==
    /\ pc["frame"] = "idle"
    /\ pc["cfg"] = "idle"
    /\ Len(trace) = 3
    /\ Admitted(trace[1]) /\ ~Admitted(trace[2]) /\ Admitted(trace[3])
    /\ obj.mFrameRefreshFreq > 0
    /\ trace[2].timestamp > trace[1].timestamp
    /\ obj.mLastFrameTimestamp = trace[3].timestamp

(***************************************************************************)
(* C8.  A failed allocation (the allocator returns NULL, or a buffer whose *)
(* data pointer is NULL) costs that frame only: the timestamped-data       *)
(* callback is not invoked for it, the allocator is not called again for   *)
(* it, and the next frame the gate admits gets one allocator call and, if  *)
(* that succeeds, one timestamped-data callback.                           *)
(***************************************************************************)
AllocFailed(calls) ==
    /\ calls # <<>>
    /\ calls[1].fn = "get_memory"
    /\ calls[1].ret \in {"null", "nodata"}

ProcessedNormally(e) ==
    \/ /\ Len(e.calls) = 1
       /\ IsGetMemory(e.calls[1], frameBufferSize)
       /\ AllocFailed(e.calls)
    \/ DeliveredOnce(e, frameBufferSize)

C8_AllocationFailureIsLocal ==
    /\ \A i \in 1..Len(trace) :
           AllocFailed(trace[i].calls) => Len(trace[i].calls) = 1
    /\ (InDispatch /\ AllocFailed(call["frame"].calls)) =>
           /\ Len(call["frame"].calls) = 1
           /\ pc["frame"] = "return"
    /\ (pc["cfg"] = "idle" /\ pc["frame"] = "idle") =>
           \A i \in 1..Len(trace) : \A j \in (i + 1)..Len(trace) :
               ( /\ AllocFailed(trace[i].calls)
                 /\ \A k \in (i + 1)..(j - 1) : ~Admitted(trace[k])
                 /\ trace[j].timestamp - trace[i].timestamp
                        >= obj.mFrameRefreshFreq )
               => ProcessedNormally(trace[j])

C8_Witness ==
    /\ pc["frame"] = "idle"
    /\ Len(trace) = 3
    /\ AllocFailed(trace[1].calls)
    /\ trace[1].calls[1].ret = "nodata"
    /\ ~Admitted(trace[2])
    /\ DeliveredOnce(trace[3], frameBufferSize)

(***************************************************************************)
(* C9.  A dispatch works on one consistent configuration: from the moment  *)
(* it holds the lock until it returns no API call is part-way through its  *)
(* writes, the callback slots and the opaque context are those of one      *)
(* installed set, no member other than the gate's reference changes, and   *)
(* the callbacks it invokes and the context it passes are the ones it      *)
(* found when it took the lock.                                            *)
(***************************************************************************)
Configuration(o) == [o EXCEPT !.mLastFrameTimestamp = 0]

C9_DispatchSeesOneConfiguration ==
    InDispatch =>
        /\ pc["cfg"] # "body"
        /\ pc["cfg"] = "unlocked" => call["cfg"].writes = <<>>
        /\ mObjectLock = "frame"
        /\ Slots(obj) \in CallbackSets
        /\ Configuration(obj) = Configuration(call["frame"].seen)
        /\ \A i \in 1..Len(call["frame"].calls) :
               LET c == call["frame"].calls[i] IN
               /\ c.fn = "get_memory" =>
                      c.cb = call["frame"].seen.mGetMemoryCB
               /\ c.fn = "data_cb_timestamp" =>
                      /\ c.cb = call["frame"].seen.mDataCBTimestamp
                      /\ c.user = call["frame"].seen.mCBOpaque

C9_Witness ==
    /\ InDispatch
    /\ pc["frame"] = "return"
    /\ Slots(obj) = FullSet(2)
    /\ Len(call["frame"].calls) = 2
    /\ call["frame"].calls[2].cb = 2
    /\ call["frame"].calls[2].user = 2

(***************************************************************************)
(* C10.  When cleanupCBNotifier returns, every member has the value the    *)
(* constructor gave it: mask 0, the four callbacks and the opaque context  *)
(* NULL, recording disabled with reference and interval 0; so the queries  *)
(* answer as they do right after construction.                             *)
(***************************************************************************)
C10_CleanupRestoresConstruction ==
    AtApiReturn("cleanupCBNotifier") =>
        /\ obj = Constructed
        /\ isVideoRecordingEnabled = FALSE
        /\ \A m \in MsgTypes : isMessageEnabled(m) = 0
        /\ AllSlotsNull(obj) /\ obj.mCBOpaque = NULL

C10_Witness ==
    /\ AtApiReturn("cleanupCBNotifier")
    /\ call["cfg"].pre.mVideoRecEnabled
    /\ call["cfg"].pre.mLastFrameTimestamp # 0
    /\ call["cfg"].pre.mFrameRefreshFreq # 0
    /\ call["cfg"].pre.mMessageEnabler # 0
    /\ AllSlotsSet(call["cfg"].pre)

(***************************************************************************)
(* C11.  enableMessage(b) followed directly by disableMessage(b) leaves    *)
(* the mask as it was before the enableMessage.  This is the claim as      *)
(* made; bits of b that were already set are cleared by the disable.       *)
(***************************************************************************)
RoundTrip ==
    /\ AtApiReturn("disableMessage")
    /\ call["cfg"].prev.op = "enableMessage"
    /\ call["cfg"].prev.arg = call["cfg"].arg

C11_RoundTripRestoresMask ==
    RoundTrip => obj.mMessageEnabler = call["cfg"].prev.mask

(***************************************************************************)
(* C11, amended.  enableMessage(b) followed directly by disableMessage(b)  *)
(* leaves the mask equal to m & ~b, where m is the mask before the enable: *)
(* it is m again if and only if no bit of b was set in m.                  *)
(***************************************************************************)
C11_RoundTripClearsBits ==
    RoundTrip =>
        LET m == call["cfg"].prev.mask
            b == call["cfg"].arg
        IN /\ obj.mMessageEnabler = BitAndNot(m, b)
           /\ (obj.mMessageEnabler = m) <=> (BitAnd(m, b) = 0)

C11_Witness ==
    /\ RoundTrip
    /\ call["cfg"].prev.mask = CAMERA_MSG_PREVIEW_FRAME
    /\ call["cfg"].arg = CAMERA_MSG_VIDEO_FRAME
    /\ obj.mMessageEnabler = CAMERA_MSG_PREVIEW_FRAME

(***************************************************************************)
(* C12.  enableMessage(b) sets exactly the bits of b and disableMessage(b) *)
(* clears exactly the bits of b: no other bit of the mask changes, and no  *)
(* other member (callbacks, opaque context, recording state) changes.      *)
(***************************************************************************)
RECURSIVE Pow2(_)
Pow2(i) == IF i = 0 THEN 1 ELSE 2 * Pow2(i - 1)
Bit(x, i) == (x \div Pow2(i)) % 2
MessageBits == 0..(lCameraMessagesNum - 1)

C12_MaskCallsTouchOnlyTheirBits ==
    /\ AtApiReturn("enableMessage") =>
           /\ \A i \in MessageBits :
                  Bit(obj.mMessageEnabler, i) =
                      IF Bit(call["cfg"].arg, i) = 1 THEN 1
                      ELSE Bit(call["cfg"].pre.mMessageEnabler, i)
           /\ [obj EXCEPT !.mMessageEnabler = 0]
                  = [call["cfg"].pre EXCEPT !.mMessageEnabler = 0]
    /\ AtApiReturn("disableMessage") =>
           /\ \A i \in MessageBits :
                  Bit(obj.mMessageEnabler, i) =
                      IF Bit(call["cfg"].arg, i) = 1 THEN 0
                      ELSE Bit(call["cfg"].pre.mMessageEnabler, i)
           /\ [obj EXCEPT !.mMessageEnabler = 0]
                  = [call["cfg"].pre EXCEPT !.mMessageEnabler = 0]

C12_Witness ==
    /\ AtApiReturn("enableMessage")
    /\ call["cfg"].pre.mMessageEnabler = CAMERA_MSG_PREVIEW_FRAME
    /\ call["cfg"].arg = CAMERA_MSG_VIDEO_FRAME
    /\ obj.mMessageEnabler = CAMERA_MSG_PREVIEW_FRAME + CAMERA_MSG_VIDEO_FRAME
    /\ obj.mVideoRecEnabled
    /\ AllSlotsSet(obj)

(***************************************************************************)
(* C13.  For every fps > 0, enableVideoRecording(fps) returns NO_ERROR and *)
(* leaves the recording state as {enabled, last frame timestamp 0, frame   *)
(* interval = 1000000000 div fps, truncated}: 33333333 for fps = 30 and    *)
(* 1000000000 for fps = 1.                                                 *)
(***************************************************************************)
TruncatedQuotient(q, n, d) == q * d <= n /\ n < (q + 1) * d

C13_EnableSetsRecordingState ==
    (AtApiReturn("enableVideoRecording") /\ call["cfg"].arg > 0) =>
        /\ call["cfg"].ret = NO_ERROR
        /\ obj.mVideoRecEnabled = TRUE
        /\ obj.mLastFrameTimestamp = 0
        /\ TruncatedQuotient(obj.mFrameRefreshFreq, NANOS_PER_SEC,
                             call["cfg"].arg)
        /\ call["cfg"].arg = 30 => obj.mFrameRefreshFreq = 33333333
        /\ call["cfg"].arg = 1 => obj.mFrameRefreshFreq = 1000000000

C13_Witness ==
    /\ AtApiReturn("enableVideoRecording")
    /\ call["cfg"].arg = 30
    /\ call["cfg"].pre.mVideoRecEnabled
    /\ call["cfg"].pre.mLastFrameTimestamp > 0
    /\ call["cfg"].pre.mFrameRefreshFreq = 10000000
    /\ obj.mFrameRefreshFreq = 33333333

(***************************************************************************)
(* C14.  storeMetaDataInBuffers(enable) answers INVALID_OPERATION for      *)
(* enable = true and for enable = false, whatever the state it is called   *)
(* in, and none of its steps changes a member or the lock.                 *)
(***************************************************************************)
InStoreMetaData ==
    /\ pc["cfg"] = "unlocked"
    /\ call["cfg"].op = "storeMetaDataInBuffers"

StoreMetaDataStep ==
    /\ <<pc["cfg"], call["cfg"]>>' # <<pc["cfg"], call["cfg"]>>
    /\ InStoreMetaData \/ InStoreMetaData'

C14_StoreMetaDataAnswer ==
    InStoreMetaData =>
        /\ call["cfg"].arg \in BOOLEAN
        /\ call["cfg"].ret = INVALID_OPERATION

C14_StoreMetaDataIsFixedAnswer ==
    /\ []C14_StoreMetaDataAnswer
    /\ [][StoreMetaDataStep =>
              /\ obj' = obj
              /\ mObjectLock' = mObjectLock
              /\ crashed' = crashed]_vars

C14_Witness ==
    /\ InStoreMetaData
    /\ call["cfg"].arg = TRUE
    /\ call["cfg"].writes = <<>>
    /\ mObjectLock = "frame"
    /\ pc["frame"] = "data_cb"
    /\ obj.mVideoRecEnabled

(***************************************************************************)
(* C15.  Pacing.  While recording stays enabled with one frame interval    *)
(* greater than 0 (no API call since the frames of the trace) and the      *)
(* timestamps supplied do not decrease, two frames admitted one after the  *)
(* other are at least one frame interval apart, however many frames were   *)
(* turned away between them.                                               *)
(***************************************************************************)
NonDecreasing(es) ==
    \A i \in 1..(Len(es) - 1) : es[i].timestamp <= es[i + 1].timestamp

ConsecutiveAdmitted(i, j) ==
    /\ i < j
    /\ Admitted(trace[i]) /\ Admitted(trace[j])
    /\ \A k \in (i + 1)..(j - 1) : ~Admitted(trace[k])

C15_Pacing ==
    (obj.mVideoRecEnabled /\ obj.mFrameRefreshFreq > 0 /\ NonDecreasing(trace)) =>
        \A i \in 1..Len(trace) : \A j \in 1..Len(trace) :
            ConsecutiveAdmitted(i, j) =>
                trace[j].timestamp - trace[i].timestamp >= obj.mFrameRefreshFreq

\* Admitted, then a frame with the same timestamp turned away, then admitted.
C15_Witness ==
    /\ obj.mVideoRecEnabled /\ obj.mFrameRefreshFreq = 10000000
    /\ Len(trace) = 3
    /\ NonDecreasing(trace)
    /\ ConsecutiveAdmitted(1, 3)
    /\ trace[1].timestamp = 15000000
    /\ trace[2].timestamp = 15000000
    /\ trace[3].timestamp = 40000000

(***************************************************************************)
(* C16.  Delivery protocol.  A dispatch that invokes the timestamped-data  *)
(* callback invoked exactly one thing before it: the allocator, with       *)
(* (-1, frame buffer size, 1, NULL), which returned a buffer with data.    *)
(* The data callback is invoked once, after the copy of the frame into the *)
(* buffer, with the frame's timestamp, CAMERA_MSG_VIDEO_FRAME, that        *)
(* buffer, index 0 and the opaque context installed.                       *)
(***************************************************************************)
FollowsProtocol(timestamp, calls) ==
    \A i \in 1..Len(calls) :
        calls[i].fn = "data_cb_timestamp" =>
            /\ i = 2 /\ Len(calls) = 2
            /\ IsGetMemory(calls[1], frameBufferSize)
            /\ calls[1].ret = "ok"
            /\ IsDataCB(calls[2], timestamp)
            /\ calls[2].data = calls[1].ret
            /\ calls[2].copied = frameBufferSize
            /\ calls[2].user = obj.mCBOpaque

C16_DeliveryProtocol ==
    /\ InDispatch =>
           FollowsProtocol(call["frame"].timestamp, call["frame"].calls)
    /\ \A i \in 1..Len(trace) :
           FollowsProtocol(trace[i].timestamp, trace[i].calls)

C16_Witness ==
    /\ InDispatch
    /\ pc["frame"] = "return"
    /\ Len(call["frame"].calls) = 2
    /\ call["frame"].calls[2].fn = "data_cb_timestamp"
    /\ call["frame"].calls[2].data = "ok"
    /\ call["frame"].calls[2].user = 1
    /\ Len(trace) = 1
    /\ DeliveredOnce(trace[1], frameBufferSize)

(***************************************************************************)
(* C17.  The lock is held across the allocator call and the data callback  *)
(* of a dispatch, and, no callback calling back into the object, every     *)
(* operation that holds the lock goes on to release it and return: the     *)
(* thread that holds the lock always has a next step.  Here no callback    *)
(* re-enters, and the claim fails: a dispatch that calls through the unset *)
(* mGetMemoryCB, or an enableVideoRecording(0) whose division traps, dies  *)
(* holding the lock.                                                       *)
(***************************************************************************)
HolderCanStep ==
    \/ /\ mObjectLock = "cfg"
       /\ ENABLED (ApiWrite \/ ApiReturn)
    \/ /\ mObjectLock = "frame"
       /\ ENABLED (FrameGuard \/ FrameGetMemory \/ FrameDataCB \/ FrameReturn)

C17_LockHeldAndAlwaysReleased ==
    /\ (InDispatch /\ pc["frame"] \in {"get_memory", "data_cb"}) =>
           mObjectLock = "frame"
    /\ mObjectLock # "free" => HolderCanStep

(***************************************************************************)
(* C18.  The gate's reference is advanced before the allocation.  When a   *)
(* frame admitted at t finds the allocator failing, mLastFrameTimestamp is *)
(* t already, and stays t after the dispatch; so the next frame, at t'     *)
(* with t' - t less than the frame interval, is turned away although       *)
(* nothing was delivered at t.                                             *)
(***************************************************************************)
C18_FailedAllocationConsumesAdmission ==
    /\ (InDispatch /\ AllocFailed(call["frame"].calls)) =>
           obj.mLastFrameTimestamp = call["frame"].timestamp
    /\ ( /\ pc["frame"] \in {"idle", "guard"}
         /\ trace # <<>>
         /\ AllocFailed(trace[Len(trace)].calls) ) =>
           obj.mLastFrameTimestamp = trace[Len(trace)].timestamp
    /\ \A i \in 1..(Len(trace) - 1) :
           ( /\ AllocFailed(trace[i].calls)
             /\ trace[i + 1].timestamp - trace[i].timestamp
                    < obj.mFrameRefreshFreq )
           => /\ ~Admitted(trace[i + 1])
              /\ ~Delivered(trace[i])

\* Allocation failed at 10000000; the frame 5000000 later is turned away.
C18_Witness ==
    /\ pc["frame"] = "idle"
    /\ obj.mFrameRefreshFreq = 10000000
    /\ Len(trace) = 2
    /\ trace[1].timestamp = 10000000
    /\ AllocFailed(trace[1].calls)
    /\ trace[1].calls[1].ret = "null"
    /\ trace[2].timestamp = 15000000
    /\ ~Admitted(trace[2])
    /\ obj.mLastFrameTimestamp = 10000000

(***************************************************************************)
(* C19.  Frame condition of onNextFrameAvailable.  A dispatch changes no   *)
(* member but mLastFrameTimestamp, and changes that one only when the      *)
(* video-frame bit is set, mDataCBTimestamp is installed, recording is     *)
(* enabled and the frame is admitted; it then holds the frame's timestamp. *)
(* A frame refused for the mask, the missing callback or disabled          *)
(* recording leaves every member as it was, and the rate gate is not       *)
(* evaluated for it.                                                       *)
(***************************************************************************)
WantedIn(o) ==
    /\ VideoBitSet(o)
    /\ o.mDataCBTimestamp # NULL
    /\ o.mVideoRecEnabled

C19_DispatchFrameCondition ==
    InDispatch =>
        LET seen == call["frame"].seen
            timestamp == call["frame"].timestamp
        IN /\ [obj EXCEPT !.mLastFrameTimestamp = seen.mLastFrameTimestamp] = seen
           /\ obj.mLastFrameTimestamp # seen.mLastFrameTimestamp =>
                  /\ WantedIn(seen)
                  /\ timestamp - seen.mLastFrameTimestamp >= seen.mFrameRefreshFreq
                  /\ obj.mLastFrameTimestamp = timestamp
                  /\ call["frame"].gated
           /\ ~WantedIn(seen) =>
                  /\ obj = seen
                  /\ ~call["frame"].gated
                  /\ call["frame"].calls = <<>>

\* The reference moves from 10000000 to 40000000 and nothing else changes.
C19_Witness ==
    /\ InDispatch
    /\ pc["frame"] = "return"
    /\ call["frame"].seen.mLastFrameTimestamp = 10000000
    /\ obj.mLastFrameTimestamp = 40000000
    /\ obj.mMessageEnabler = CAMERA_MSG_PREVIEW_FRAME + CAMERA_MSG_VIDEO_FRAME

(***************************************************************************)
(* C20.  Whenever no API call is part-way through its writes: recording    *)
(* disabled implies mLastFrameTimestamp = 0 and mFrameRefreshFreq = 0, and *)
(* recording enabled by a most recent enableVideoRecording(fps) with       *)
(* fps > 0 implies mFrameRefreshFreq = 1000000000 div fps.                 *)
(***************************************************************************)
C20_RecordingStateInvariant ==
    mObjectLock # "cfg" =>
        /\ ~obj.mVideoRecEnabled =>
               /\ obj.mLastFrameTimestamp = 0
               /\ obj.mFrameRefreshFreq = 0
        /\ obj.mVideoRecEnabled =>
               (lastFps > 0 =>
                    obj.mFrameRefreshFreq = NANOS_PER_SEC \div lastFps)

\* Enabled at 30 fps; a dispatch in progress has moved the reference.
C20_Witness ==
    /\ mObjectLock = "frame"
    /\ pc["frame"] = "data_cb"
    /\ obj.mVideoRecEnabled
    /\ lastFps = 30
    /\ obj.mFrameRefreshFreq = 33333333
    /\ obj.mLastFrameTimestamp = 40000000

====
